---- MODULE Spec2Model ----
(***************************************************************************)
(* RLTicTacToe: the game state manager (TicTacToeManager) and the          *)
(* alpha-beta adversary (Adversary) of src/src/tictactoe.py.               *)
(*                                                                         *)
(* The manager object is the record `manager`; its methods are operators  *)
(* from a manager record to a manager record (or to a value), and every   *)
(* action applies them.  Adversary.search / search_root run as a small-   *)
(* step machine over an explicit call stack, mutating `manager` in place  *)
(* exactly where the code calls make_move / unmake_move.                   *)
(***************************************************************************)
EXTENDS Integers, Sequences, FiniteSets, TLC

VARIABLES
    manager,   \* TicTacToeManager: size, board, crosses, noughts, turn, pieces_to_win
    made,      \* the caller's record of make_move calls not yet undone (oldest first)
    last,      \* name of the operation that produced this state
    stack,     \* call stack of Adversary.search / search_root frames (top = last)
    ret,       \* value returned by the most recent call that returned
    call,      \* the outermost adversary call: its name, depth and the manager at call time
    env        \* TicTacToeEnv: depth, action_space.legal_moves, the method in progress, its argument and its return value

vars == <<manager, made, last, stack, ret, call, env>>

---------------------------------------------------------------------------
(* Bounds of the model *)

\* largest board side explored by the manager specifications
MaxSize == 3
\* SpecPlay, SpecCtor: cap on the marks played
MaxMoves == 3
\* Spec: cap on len(crosses) + len(noughts), which reset_board does not shorten
MaxHistory == 2
\* SpecGame: cap on the marks played on the default 3x3 board
MaxGameMoves == 5
\* SpecSearch: largest board side
MaxSearchSize == 3
\* SpecSearch: cap on len(crosses) + len(noughts) for the caller's moves
MaxSearchMoves == 2
\* SpecSearch: largest depth handed to search / search_root
MaxDepth == 3
\* SpecStale: largest board side
MaxStaleSize == 2
\* SpecStale: cap on len(crosses) + len(noughts) for the caller's moves
MaxStaleMoves == 4
\* SpecStale: largest depth handed to search / search_root
MaxStaleDepth == 2
\* SpecStaleRoot: cap on len(crosses) + len(noughts) for the caller's moves
MaxStaleRootMoves == 4
\* SpecEnv: largest board side
MaxEnvSize == 3
\* SpecEnv: largest depth given to TicTacToeEnv
MaxEnvDepth == 2
\* SpecEnv: cap on len(crosses) + len(noughts), which reset does not shorten
MaxEnvHistory == 3

---------------------------------------------------------------------------
(* Board (src/board.py is not part of the sources; modelled from the      *)
(* specification's section 4.1: size*size cells, reset writes 0 to all)   *)

Cells(sz) == 0 .. (sz * sz - 1)

\* Board(size): size*size cells set to 0
Board(sz) == [i \in Cells(sz) |-> 0]

\* Board.create_board(): every cell becomes 0
create_board(b) == [i \in DOMAIN b |-> 0]

---------------------------------------------------------------------------
(* TicTacToeManager *)

\* list.remove(x): drops the first occurrence of x (x is in the list)
Remove(list, x) ==
    LET i == CHOOSE k \in 1 .. Len(list) :
                 /\ list[k] = x
                 /\ \A j \in 1 .. (k - 1) : list[j] # x
    IN  SubSeq(list, 1, i - 1) \o SubSeq(list, i + 1, Len(list))

\* __init__(board = Board(sz), pieces_to_win = ptw); ptw = 0 stands for a
\* falsy argument (None or 0), which the constructor replaces by board.size
TicTacToeManager(sz, ptw) ==
    [ size          |-> sz,
      board         |-> Board(sz),
      crosses       |-> << >>,
      noughts       |-> << >>,
      turn          |-> 1,
      pieces_to_win |-> IF ptw = 0 THEN sz ELSE ptw ]

\* reset_board(): only the board is recreated
reset_board(m) == [m EXCEPT !.board = create_board(m.board)]

\* variant of make_move that places the mark and leaves turn as it is
make_move_keeps_turn(m, cell) ==
    [m EXCEPT !.crosses = IF m.turn = 1 THEN Append(@, cell) ELSE @,
              !.noughts = IF m.turn = 1 THEN @ ELSE Append(@, cell),
              !.board[cell] = m.turn]

make_move(m, cell) ==
    [m EXCEPT !.crosses = IF m.turn = 1 THEN Append(@, cell) ELSE @,
              !.noughts = IF m.turn = 1 THEN @ ELSE Append(@, cell),
              !.board[cell] = m.turn,
              !.turn = m.turn * (-1)]

\* variant of unmake_move that forgets to flip turn back
unmake_move_keeps_turn(m, cell) ==
    [m EXCEPT !.crosses = IF m.turn = -1 THEN Remove(@, cell) ELSE @,
              !.noughts = IF m.turn = -1 THEN @ ELSE Remove(@, cell),
              !.board[cell] = 0]

unmake_move(m, cell) ==
    [m EXCEPT !.crosses = IF m.turn = -1 THEN Remove(@, cell) ELSE @,
              !.noughts = IF m.turn = -1 THEN @ ELSE Remove(@, cell),
              !.board[cell] = 0,
              !.turn = m.turn * (-1)]

\* indices of the cells of 0 .. hi-1 that hold 0, ascending (the enumerate loop)
RECURSIVE LegalUpTo(_, _)
LegalUpTo(b, hi) ==
    IF hi = 0 THEN << >>
    ELSE IF b[hi - 1] = 0 THEN Append(LegalUpTo(b, hi - 1), hi - 1)
         ELSE LegalUpTo(b, hi - 1)

\* variant of find_legal_moves that stops one cell short of the board's end
find_legal_moves_short(m) == LegalUpTo(m.board, m.size * m.size - 1)

find_legal_moves(m) == LegalUpTo(m.board, m.size * m.size)

directions ==
    << <<-1, -1>>, <<0, -1>>, <<1, -1>>,
       <<-1, 0>>,             <<1, 0>>,
       <<-1, 1>>,  <<0, 1>>,  <<1, 1>> >>

\* variant of check_borders that only asks whether the flat index of the
\* neighbour is on the board
check_borders_flat(m, cell, direction) ==
    LET nc == cell + direction[1] + direction[2] * m.size
    IN  0 <= nc /\ nc < m.size * m.size

check_borders(m, cell, direction) ==
    LET x == cell % m.size
        y == cell \div m.size
    IN  /\ 0 <= x + direction[1] /\ x + direction[1] < m.size
        /\ 0 <= y + direction[2] /\ y + direction[2] < m.size

\* the inner loop `for i in range(1, pieces_to_win)` from step i on, next_cell
\* being the cell the previous step reached; TRUE = the loop ran to its else
RECURSIVE Walk(_, _, _, _, _)
Walk(m, cell, direction, i, next_cell) ==
    IF i >= m.pieces_to_win THEN TRUE
    ELSE IF ~check_borders(m, next_cell, direction) THEN FALSE
    ELSE LET nc == cell + (direction[1] + direction[2] * m.size) * i
         IN  IF m.board[nc] # m.board[cell] THEN FALSE
             ELSE Walk(m, cell, direction, i + 1, nc)

\* the board indices the same loop reads at line 65 (board.board[next_cell]);
\* an index off the board is recorded and ends the walk
RECURSIVE WalkReads(_, _, _, _, _)
WalkReads(m, cell, direction, i, next_cell) ==
    IF i >= m.pieces_to_win THEN {}
    ELSE IF ~check_borders(m, next_cell, direction) THEN {}
    ELSE LET nc == cell + (direction[1] + direction[2] * m.size) * i
         IN  IF nc \notin DOMAIN m.board THEN {nc}
             ELSE IF m.board[nc] # m.board[cell] THEN {nc}
             ELSE {nc} \cup WalkReads(m, cell, direction, i + 1, nc)

check_win_at_cell(m, cell) ==
    IF \E d \in 1 .. Len(directions) : Walk(m, cell, directions[d], 1, cell)
    THEN 1 ELSE 0

check_win(m) ==
    LET turn_list == IF m.turn = -1 THEN m.crosses ELSE m.noughts
    IN  IF \E k \in 1 .. Len(turn_list) : check_win_at_cell(m, turn_list[k]) # 0
        THEN 1 ELSE 0

---------------------------------------------------------------------------
(* Callers of the manager *)

\* no adversary call is in progress or has just returned
NoCall == [fn |-> "none", depth |-> 0, pre |-> << >>]

\* no TicTacToeEnv has been built around the manager
NoEnv == [depth |-> 0, legal_moves |-> << >>, pc |-> "none", action |-> -1, out |-> << >>]

HistLen == Len(manager.crosses) + Len(manager.noughts)

Idle == stack = << >>

\* a caller places a mark on an empty cell
MakeMove(cell) ==
    /\ Idle
    /\ cell \in Cells(manager.size)
    /\ manager.board[cell] = 0
    /\ manager' = make_move(manager, cell)
    /\ made' = Append(made, cell)
    /\ last' = "make_move"
    /\ ret' = 0
    /\ call' = NoCall
    /\ UNCHANGED stack
    /\ UNCHANGED env

\* a caller undoes its most recent move
UnmakeMove ==
    /\ Idle
    /\ made # << >>
    /\ manager' = unmake_move(manager, made[Len(made)])
    /\ made' = SubSeq(made, 1, Len(made) - 1)
    /\ last' = "unmake_move"
    /\ ret' = 0
    /\ call' = NoCall
    /\ UNCHANGED stack
    /\ UNCHANGED env

\* a caller resets the board; nothing is left for it to undo
ResetBoard ==
    /\ Idle
    /\ manager' = reset_board(manager)
    /\ made' = << >>
    /\ last' = "reset_board"
    /\ ret' = 0
    /\ call' = NoCall
    /\ UNCHANGED stack
    /\ UNCHANGED env

\* a caller asks for the legal moves; the list is handed back in ret
FindLegalMoves ==
    /\ Idle
    /\ last # "find_legal_moves"
    /\ ret' = find_legal_moves(manager)
    /\ last' = "find_legal_moves"
    /\ UNCHANGED <<manager, made, stack, call>>
    /\ UNCHANGED env

\* constructor arguments (size, pieces_to_win) with 1 <= pieces_to_win <= size,
\* or the falsy 0 that selects the default
ValidArgs == {a \in (1 .. MaxSize) \X (0 .. MaxSize) : a[2] <= a[1]}

InitWith(args) ==
    /\ \E a \in args : manager = TicTacToeManager(a[1], a[2])
    /\ made = << >>
    /\ last = "init"
    /\ stack = << >>
    /\ ret = 0
    /\ call = NoCall
    /\ env = NoEnv

Init == InitWith(ValidArgs)

\* legal play: moves on empty cells and undo of the latest move
NextPlay ==
    \/ \E cell \in Cells(MaxSize) : HistLen < MaxMoves /\ MakeMove(cell)
    \/ UnmakeMove

SpecPlay == Init /\ [][NextPlay]_vars

\* legal play on the default 3x3 board, for every win length 1..3
InitGame == InitWith({3} \X (1 .. 3))

NextGame ==
    \/ \E cell \in Cells(3) : HistLen < MaxGameMoves /\ MakeMove(cell)
    \/ UnmakeMove

SpecGame == InitGame /\ [][NextGame]_vars

\* the manager as its callers may drive it
Next ==
    \/ \E cell \in Cells(MaxSize) : HistLen < MaxHistory /\ MakeMove(cell)
    \/ UnmakeMove
    \/ ResetBoard
    \/ FindLegalMoves

Spec == Init /\ [][Next]_vars

---------------------------------------------------------------------------
(* Adversary: search and search_root as a small-step machine.             *)
(* A frame holds the locals of one activation; pc is "enter" before the   *)
(* terminal tests, "loop" at the head of the for statement and "wait"     *)
(* while the recursive call made for moves[i] is running.                 *)

\* float('infinity'): above every value a search can return
infinity == 1000

\* None, the initial best_move of search_root
None == -1

Top == stack[Len(stack)]

Pop == SubSeq(stack, 1, Len(stack) - 1)

SetTop(f) == [stack EXCEPT ![Len(stack)] = f]

SearchFrame(depth, alpha, beta) ==
    [fn |-> "search", pc |-> "enter", depth |-> depth,
     alpha |-> alpha, beta |-> beta, moves |-> << >>, i |-> 0]

\* variant of search_root's locals with best_eval starting at 0
RootFrameFromZero(depth, moves) ==
    [fn |-> "search_root", pc |-> "loop", depth |-> depth,
     moves |-> moves, i |-> 1, best_eval |-> 0, best_move |-> None]

RootFrame(depth, moves) ==
    [fn |-> "search_root", pc |-> "loop", depth |-> depth,
     moves |-> moves, i |-> 1, best_eval |-> -infinity, best_move |-> None]

Running(fn, pc) == stack # << >> /\ Top.fn = fn /\ Top.pc = pc

\* the activation on top returns v to its caller
Return(v) ==
    /\ stack' = Pop
    /\ ret' = v

\* a caller invokes adversary.search(depth) with the default bounds
CallSearch(depth) ==
    /\ Idle
    /\ stack' = << SearchFrame(depth, -infinity, infinity) >>
    /\ call' = [fn |-> "search", depth |-> depth, pre |-> manager]
    /\ last' = "call"
    /\ ret' = 0
    /\ UNCHANGED <<manager, made>>
    /\ UNCHANGED env

\* a caller invokes adversary.search_root(depth)
CallSearchRoot(depth) ==
    /\ Idle
    /\ stack' = << RootFrame(depth, find_legal_moves(manager)) >>
    /\ call' = [fn |-> "search_root", depth |-> depth, pre |-> manager]
    /\ last' = "call"
    /\ ret' = 0
    /\ UNCHANGED <<manager, made>>
    /\ UNCHANGED env

\* search, up to the for statement: the three terminal tests
SearchEnter ==
    /\ Running("search", "enter")
    /\ LET f == Top
           win == check_win(manager)
           available_moves == find_legal_moves(manager)
       IN  IF f.depth = 0 THEN Return(0)
           ELSE IF win # 0 THEN Return(win + f.depth)
           ELSE IF available_moves = << >> THEN Return(0)
           ELSE /\ stack' = SetTop([f EXCEPT !.pc = "loop",
                                             !.moves = available_moves,
                                             !.i = 1])
                /\ UNCHANGED ret
    /\ last' = "search"
    /\ UNCHANGED <<manager, made, call>>
    /\ UNCHANGED env

\* variant of SearchMake that negates the bounds without swapping them
SearchMakeNoSwap ==
    /\ Running("search", "loop")
    /\ Top.i <= Len(Top.moves)
    /\ LET f == Top
           cell == f.moves[f.i]
       IN  /\ manager' = make_move(manager, cell)
           /\ made' = Append(made, cell)
           /\ stack' = Append(SetTop([f EXCEPT !.pc = "wait"]),
                              SearchFrame(f.depth - 1, -f.alpha, -f.beta))
    /\ last' = "search"
    /\ UNCHANGED <<ret, call>>
    /\ UNCHANGED env

\* search, loop body up to the recursive call
SearchMake ==
    /\ Running("search", "loop")
    /\ Top.i <= Len(Top.moves)
    /\ LET f == Top
           cell == f.moves[f.i]
       IN  /\ manager' = make_move(manager, cell)
           /\ made' = Append(made, cell)
           /\ stack' = Append(SetTop([f EXCEPT !.pc = "wait"]),
                              SearchFrame(f.depth - 1, -f.beta, -f.alpha))
    /\ last' = "search"
    /\ UNCHANGED <<ret, call>>
    /\ UNCHANGED env

\* search, loop body after the recursive call returned
SearchUnmake ==
    /\ Running("search", "wait")
    /\ LET f == Top
           cell == f.moves[f.i]
           evaluation == -ret
       IN  /\ manager' = unmake_move(manager, cell)
           /\ made' = SubSeq(made, 1, Len(made) - 1)
           /\ IF evaluation >= f.beta THEN Return(f.beta)
              ELSE /\ stack' = SetTop([f EXCEPT
                                         !.pc = "loop",
                                         !.i = f.i + 1,
                                         !.alpha = IF evaluation > f.alpha
                                                   THEN evaluation ELSE f.alpha])
                   /\ UNCHANGED ret
    /\ last' = "search"
    /\ UNCHANGED call
    /\ UNCHANGED env

\* search, the for statement is exhausted
SearchReturn ==
    /\ Running("search", "loop")
    /\ Top.i > Len(Top.moves)
    /\ Return(Top.alpha)
    /\ last' = "search"
    /\ UNCHANGED <<manager, made, call>>
    /\ UNCHANGED env

\* search_root, loop body up to the call of search
RootMake ==
    /\ Running("search_root", "loop")
    /\ Top.i <= Len(Top.moves)
    /\ LET f == Top
           move == f.moves[f.i]
       IN  /\ manager' = make_move(manager, move)
           /\ made' = Append(made, move)
           /\ stack' = Append(SetTop([f EXCEPT !.pc = "wait"]),
                              SearchFrame(f.depth - 1, -infinity, infinity))
    /\ last' = "search_root"
    /\ UNCHANGED <<ret, call>>
    /\ UNCHANGED env

\* variant of RootUnmake that also takes an evaluation equal to the best
RootUnmakeTakesTies ==
    /\ Running("search_root", "wait")
    /\ LET f == Top
           move == f.moves[f.i]
           evaluation == ret
           better == evaluation >= f.best_eval
       IN  /\ manager' = unmake_move(manager, move)
           /\ made' = SubSeq(made, 1, Len(made) - 1)
           /\ stack' = SetTop([f EXCEPT
                                 !.pc = "loop",
                                 !.i = f.i + 1,
                                 !.best_eval = IF better THEN evaluation ELSE @,
                                 !.best_move = IF better THEN move ELSE @])
    /\ last' = "search_root"
    /\ UNCHANGED <<ret, call>>
    /\ UNCHANGED env

\* search_root, loop body after search returned
RootUnmake ==
    /\ Running("search_root", "wait")
    /\ LET f == Top
           move == f.moves[f.i]
           evaluation == ret
           better == evaluation > f.best_eval
       IN  /\ manager' = unmake_move(manager, move)
           /\ made' = SubSeq(made, 1, Len(made) - 1)
           /\ stack' = SetTop([f EXCEPT
                                 !.pc = "loop",
                                 !.i = f.i + 1,
                                 !.best_eval = IF better THEN evaluation ELSE @,
                                 !.best_move = IF better THEN move ELSE @])
    /\ last' = "search_root"
    /\ UNCHANGED <<ret, call>>
    /\ UNCHANGED env

\* search_root, the for statement is exhausted
RootReturn ==
    /\ Running("search_root", "loop")
    /\ Top.i > Len(Top.moves)
    /\ Return(Top.best_move)
    /\ last' = "search_root"
    /\ UNCHANGED <<manager, made, call>>
    /\ UNCHANGED env

AdversaryStep ==
    \/ SearchEnter
    \/ SearchMake
    \/ SearchUnmake
    \/ SearchReturn
    \/ RootMake
    \/ RootUnmake
    \/ RootReturn

\* the outermost adversary call has returned
Returned(fn) == Idle /\ call.fn = fn

\* valid constructor arguments for boards of side up to scap
ArgsUpTo(scap) == {a \in (1 .. scap) \X (0 .. scap) : a[2] <= a[1]}

\* callers on boards of side up to scap that play at most mcap marks into the
\* history lists and call the adversary with depths up to dcap
NextSearch(scap, mcap, dcap) ==
    \/ \E cell \in Cells(scap) : HistLen < mcap /\ MakeMove(cell)
    \/ ResetBoard
    \/ \E depth \in 0 .. dcap : CallSearch(depth)
    \/ \E depth \in 1 .. dcap : CallSearchRoot(depth)
    \/ AdversaryStep

InitSearch == InitWith(ArgsUpTo(MaxSearchSize))

SpecSearch ==
    InitSearch /\ [][NextSearch(MaxSearchSize, MaxSearchMoves, MaxDepth)]_vars

InitStale == InitWith(ArgsUpTo(MaxStaleSize))

SpecStale ==
    InitStale /\ [][NextSearch(MaxStaleSize, MaxStaleMoves, MaxStaleDepth)]_vars

\* search_root on a 3x3 board with pieces_to_win = 2, called by a caller who
\* also plays moves and calls reset_board
NextStaleRoot ==
    \/ \E cell \in Cells(3) : HistLen < MaxStaleRootMoves /\ MakeMove(cell)
    \/ ResetBoard
    \/ CallSearchRoot(2)
    \/ AdversaryStep

InitStaleRoot == InitWith({<<3, 2>>})

SpecStaleRoot == InitStaleRoot /\ [][NextStaleRoot]_vars

\* self-play on the default 3x3 board with pieces_to_win = 3: while nobody
\* has won and a cell is free, the side to move asks search_root(9) ...
SelfPlayAsk ==
    /\ call.fn = "none"
    /\ check_win(manager) = 0
    /\ find_legal_moves(manager) # << >>
    /\ CallSearchRoot(9)

\* ... and plays the move it returned
SelfPlayMove ==
    /\ Returned("search_root")
    /\ MakeMove(ret)

InitSelfPlay == InitWith({<<3, 3>>})

NextSelfPlay ==
    \/ SelfPlayAsk
    \/ SelfPlayMove
    \/ AdversaryStep

SpecSelfPlay == InitSelfPlay /\ [][NextSelfPlay]_vars

\* construction with any win length, valid or not
AnyArgs == (1 .. MaxSize) \X (-1 .. (MaxSize + 1))

InitAny == InitWith(AnyArgs)

SpecCtor == InitAny /\ [][NextPlay]_vars

---------------------------------------------------------------------------
(* TicTacToeEnv (src/environment/tictactoe_gym/tictactoe_gym.py).  The     *)
(* observation board.get_uid() that reset and step also return is a        *)
(* function of the board and is left out of the return values.  While     *)
(* reset or step waits for search_root, env.pc names the waiting method    *)
(* and the adversary machine runs.                                         *)

\* Python's `x in list`
In(x, list) == \E k \in 1 .. Len(list) : list[k] = x

\* __init__(size, pieces_to_win, depth): lines 15-19 (the manager is built
\* by TicTacToeManager(size, pieces_to_win))
TicTacToeEnv(m, depth) ==
    [ depth       |-> depth,
      legal_moves |-> find_legal_moves(m),
      pc          |-> "idle",
      action      |-> None,
      out         |-> << >> ]

\* no env method is in progress
EnvIdle == env.pc = "idle" /\ stack = << >>

\* reset(), lines 23-26 up to the call of search_root
EnvReset ==
    /\ EnvIdle
    /\ LET m == reset_board(manager)
       IN  /\ manager' = m
           /\ env' = [env EXCEPT !.legal_moves = find_legal_moves(m),
                                 !.pc = "reset",
                                 !.action = None]
           /\ stack' = <<RootFrame(env.depth, find_legal_moves(m))>>
           /\ call' = [fn |-> "search_root", depth |-> env.depth, pre |-> m]
    /\ last' = "reset"
    /\ ret' = 0
    /\ UNCHANGED made

\* variant of step that tests the action against the board's index range only
EnvStepRangeOnly(action) ==
    /\ EnvIdle
    /\ last' = "step"
    /\ IF action \notin Cells(manager.size)
       THEN /\ env' = [env EXCEPT
                         !.action = action,
                         !.out = [reward |-> -10, terminated |-> FALSE,
                                  truncated |-> FALSE, info |-> << >>]]
            /\ UNCHANGED <<manager, made, stack, ret, call>>
       ELSE LET m == make_move(manager, action)
                reward == check_win(m)
            IN  /\ manager' = m
                /\ made' = Append(made, action)
                /\ env' = [env EXCEPT
                             !.action = action,
                             !.out = [reward |-> -reward, terminated |-> TRUE,
                                      truncated |-> FALSE,
                                      info |-> [step |-> action, win |-> TRUE,
                                                reward |-> -reward]]]
                /\ UNCHANGED <<stack, ret, call>>

\* step(action), lines 36-44 up to the call of search_root
EnvStep(action) ==
    /\ EnvIdle
    /\ last' = "step"
    /\ IF ~In(action, find_legal_moves(manager))
       THEN /\ env' = [env EXCEPT
                         !.action = action,
                         !.out = [reward |-> -10, terminated |-> FALSE,
                                  truncated |-> FALSE, info |-> << >>]]
            /\ UNCHANGED <<manager, made, stack, ret, call>>
       ELSE LET m == make_move(manager, action)
                reward == check_win(m)
            IN  /\ manager' = m
                /\ made' = Append(made, action)
                /\ IF reward # None
                   THEN /\ env' = [env EXCEPT
                                     !.action = action,
                                     !.out = [reward |-> -reward, terminated |-> TRUE,
                                              truncated |-> FALSE,
                                              info |-> [step |-> action, win |-> TRUE,
                                                        reward |-> -reward]]]
                        /\ UNCHANGED <<stack, ret, call>>
                   ELSE /\ env' = [env EXCEPT !.action = action, !.pc = "step"]
                        /\ stack' = <<RootFrame(env.depth, find_legal_moves(m))>>
                        /\ call' = [fn |-> "search_root", depth |-> env.depth, pre |-> m]
                        /\ ret' = 0

\* search_root has returned to the env method that called it: reset goes on
\* with lines 27-29, step with lines 44-51
EnvResume ==
    /\ env.pc \in {"reset", "step"}
    /\ stack = << >>
    /\ IF env.pc = "reset"
       THEN LET first_move == ret
            IN  /\ manager' = make_move(manager, first_move)
                /\ made' = Append(made, first_move)
                /\ env' = [env EXCEPT !.legal_moves = Remove(@, first_move),
                                      !.pc = "idle",
                                      !.out = [info |-> << >>]]
                /\ last' = "reset"
       ELSE LET m == make_move(manager, ret)
                reward == check_win(m)
                terminated == reward # None
                value == IF reward = None THEN 0 ELSE reward
            IN  /\ manager' = m
                /\ made' = Append(made, ret)
                /\ env' = [env EXCEPT
                             !.legal_moves = find_legal_moves(m),
                             !.pc = "idle",
                             !.out = [reward |-> -value, terminated |-> terminated,
                                      truncated |-> FALSE,
                                      info |-> [step |-> env.action, win |-> terminated,
                                                reward |-> -value]]]
                /\ last' = "step"
    /\ UNCHANGED <<stack, ret, call>>

\* TicTacToeEnv(size, pieces_to_win, depth) for the valid configurations
EnvArgs ==
    {a \in (1 .. MaxEnvSize) \X (1 .. MaxEnvSize) \X (1 .. MaxEnvDepth) : a[2] <= a[1]}

InitEnv ==
    /\ \E a \in EnvArgs :
          /\ manager = TicTacToeManager(a[1], a[2])
          /\ env = TicTacToeEnv(TicTacToeManager(a[1], a[2]), a[3])
    /\ made = << >>
    /\ last = "init"
    /\ stack = << >>
    /\ ret = 0
    /\ call = NoCall

\* a training loop calling reset and step, with any integer near the board's
\* index range as action
NextEnv ==
    \/ HistLen < MaxEnvHistory /\ EnvReset
    \/ \E action \in -1 .. (MaxEnvSize * MaxEnvSize) :
          /\ In(action, find_legal_moves(manager)) => HistLen < MaxEnvHistory
          /\ EnvStep(action)
    \/ EnvResume
    \/ AdversaryStep

SpecEnv == InitEnv /\ [][NextEnv]_vars

---------------------------------------------------------------------------
(* Reference notions used by the properties *)

Marks(m, p) == {i \in Cells(m.size) : m.board[i] = p}

Range(list) == {list[k] : k \in 1 .. Len(list)}

NoDuplicates(list) ==
    \A j, k \in 1 .. Len(list) : j # k => list[j] # list[k]

Ascending(list) ==
    \A j, k \in 1 .. Len(list) : j < k => list[j] < list[k]

Empty(m) == \A i \in Cells(m.size) : m.board[i] = 0

\* full-board reference: player p owns K consecutive cells of one grid line
RefLine(m, p) ==
    \E x, y \in 0 .. (m.size - 1) :
      \E d \in {<<1, 0>>, <<0, 1>>, <<1, 1>>, <<1, -1>>} :
        \A i \in 0 .. (m.pieces_to_win - 1) :
            LET xx == x + d[1] * i
                yy == y + d[2] * i
            IN  /\ xx \in 0 .. (m.size - 1)
                /\ yy \in 0 .. (m.size - 1)
                /\ m.board[yy * m.size + xx] = p

ValidConfig(m) == 1 <= m.pieces_to_win /\ m.pieces_to_win <= m.size

Consistent(m) ==
    /\ NoDuplicates(m.crosses)
    /\ NoDuplicates(m.noughts)
    /\ Range(m.crosses) \cap Range(m.noughts) = {}
    /\ Range(m.crosses) = Marks(m, 1)
    /\ Range(m.noughts) = Marks(m, -1)
    /\ Len(m.crosses) + Len(m.noughts)
          = Cardinality({i \in Cells(m.size) : m.board[i] # 0})

---------------------------------------------------------------------------
(* Properties *)

\* C1 (SpecPlay): in every state of legal play, for every empty cell c,
\* make_move(c) followed by unmake_move(c) gives back the same board, turn,
\* crosses and noughts (contents and order).
C1_RoundTrip ==
    \A c \in Cells(manager.size) :
        manager.board[c] = 0 =>
            unmake_move(make_move(manager, c), c) = manager

\* C1 witness: an undo has just been performed in a position that still
\* holds marks of both sides and has an empty cell to try the round trip on.
C1_Witness ==
    /\ last = "unmake_move"
    /\ Len(manager.crosses) >= 1 /\ Len(manager.noughts) >= 1
    /\ \E c \in Cells(manager.size) : manager.board[c] = 0

\* C2 (Spec): as stated, in every state reachable by reset_board, make_move
\* on an empty cell and undo of the latest move, crosses and noughts are
\* disjoint, duplicate-free and are exactly the cells holding +1 and -1.
C2_HistoryMatchesBoard == Consistent(manager)

\* C3 (Spec): as stated, right after reset_board every cell is 0, crosses and
\* noughts are empty and turn is +1.
C3_ResetRestoresInitial ==
    last = "reset_board" =>
        /\ Empty(manager)
        /\ manager.crosses = << >>
        /\ manager.noughts = << >>
        /\ manager.turn = 1

\* C4 (Spec): as stated, check_win() is 0 on an empty board, and right after
\* a legal make_move it is nonzero exactly when the player who just moved
\* owns pieces_to_win consecutive cells of a row, column or diagonal.
C4_CheckWinMatchesReference ==
    /\ Empty(manager) => check_win(manager) = 0
    /\ (last = "make_move" /\ ValidConfig(manager)) =>
           ((check_win(manager) # 0) <=> RefLine(manager, -manager.turn))

\* The same statement holds over legal play from the initial state
\* (SpecPlay, SpecGame), where reset_board is never called.
CheckWinMatchesReferenceInPlay == C4_CheckWinMatchesReference

\* SpecGame: 3x3, K = 3, after the moves 0,1,4,2,8 check_win() reports the
\* diagonal
DiagonalExample ==
    (manager.size = 3 /\ manager.pieces_to_win = 3 /\ made = <<0, 1, 4, 2, 8>>)
        => check_win(manager) # 0

DiagonalExampleReached ==
    manager.size = 3 /\ manager.pieces_to_win = 3 /\ made = <<0, 1, 4, 2, 8>>


\* C9 (Spec): whenever find_legal_moves() is called, it returns exactly the
\* indices i with board[i] = 0, strictly ascending, n*n minus the number of
\* occupied cells of them, and leaves board, turn and both lists unchanged.
C9_LegalMovesExactAndPure ==
    [][ last' = "find_legal_moves" =>
          /\ Range(ret') = Marks(manager, 0)
          /\ Ascending(ret')
          /\ Len(ret') = manager.size * manager.size
                           - Cardinality(Marks(manager, 1) \cup Marks(manager, -1))
          /\ manager' = manager ]_vars

\* C9 witness: the call has returned on a board holding marks of both sides
\* and at least two empty cells.
C9_Witness ==
    /\ last = "find_legal_moves"
    /\ Marks(manager, 1) # {} /\ Marks(manager, -1) # {}
    /\ Len(ret) >= 2

\* C10 (SpecCtor): as stated, only parameters with 1 <= winLength <= size
\* produce a game state, so no state in which a move has been played has a
\* win length outside [1, size].
C10_ConstructionValidated ==
    last = "make_move" => ValidConfig(manager)


\* unpruned exhaustive negamax with the terminal rules of search: depth 0 -> 0,
\* the side that just moved has won -> win + depth, no legal move -> 0
RECURSIVE Negamax(_, _)
Negamax(m, depth) ==
    LET legal == find_legal_moves(m)
        vals == {-Negamax(make_move(m, legal[k]), depth - 1) : k \in 1 .. Len(legal)}
    IN  IF depth = 0 THEN 0
        ELSE IF check_win(m) # 0 THEN check_win(m) + depth
        ELSE IF legal = << >> THEN 0
        ELSE CHOOSE v \in vals : \A w \in vals : w <= v

\* C5 (SpecStale): as stated, when the outermost search or search_root call
\* has returned, board, turn, crosses and noughts are what they were when it
\* was called.
C5_SearchPreservesState ==
    (Idle /\ call.fn # "none") => manager = call.pre

\* Every undo inside the recursion takes back the latest move not yet undone:
\* the cell it clears is the last one recorded in made.
SearchUndoIsLIFO ==
    [][ (stack # << >> /\ Len(made') < Len(made)) =>
          /\ made' = SubSeq(made, 1, Len(made) - 1)
          /\ manager'.board = [manager.board EXCEPT ![made[Len(made)]] = 0] ]_vars

\* Over legal play without reset_board the state is preserved.
SearchPreservesStateInPlay ==
    (Idle /\ call.fn # "none" /\ Consistent(call.pre)) => manager = call.pre

\* C6 (SpecSearch): every search call made with the bounds (-infinity,
\* +infinity) -- the outermost call, and the call search_root makes for each
\* move -- returns the value of the unpruned negamax of the same depth.
C6_AlphaBetaEqualsNegamax ==
    /\ Returned("search") => ret = Negamax(call.pre, call.depth)
    /\ Running("search_root", "wait") => ret = Negamax(manager, Top.depth - 1)

\* C6 witness: a full-window search of depth >= 2 has returned on a 3x3 board
\* and its value is a win score, so won lines were met below the root.
C6_Witness ==
    /\ Returned("search")
    /\ manager.size = 3
    /\ call.depth >= 2
    /\ ret # 0

\* C7 (SpecSelfPlay): as stated, every move of the search_root(9) self-play on
\* the 3x3 board is in [0, 8] and check_win() is 0 after every move.
C7_SelfPlayIsDraw ==
    last = "make_move" =>
        /\ made[Len(made)] \in 0 .. 8
        /\ check_win(manager) = 0

\* C8 (SpecSearch): when search_root(depth), depth >= 1, returns in a state
\* that had an empty cell at call time, the move returned is one of
\* find_legal_moves() at call time.
C8_RootMoveIsLegal ==
    (Returned("search_root") /\ call.depth >= 1
        /\ find_legal_moves(call.pre) # << >>) =>
            ret \in Range(find_legal_moves(call.pre))

\* C8 witness: search_root has returned a move on a board that holds marks
\* (some indices are occupied, so not every index is legal).
C8_Witness ==
    /\ Returned("search_root")
    /\ call.depth >= 1
    /\ Marks(call.pre, 1) # {} /\ Marks(call.pre, -1) # {}
    /\ ret \in Cells(manager.size)

\* the K cells of the grid line that starts at cell and runs in direction, as
\* <<x, y>> coordinates (reference geometry, independent of flat indices)
LineCoords(m, cell, direction) ==
    {<<(cell % m.size) + direction[1] * i, (cell \div m.size) + direction[2] * i>> :
        i \in 0 .. (m.pieces_to_win - 1)}

OnGrid(m, xy) ==
    /\ xy[1] \in 0 .. (m.size - 1)
    /\ xy[2] \in 0 .. (m.size - 1)

\* C11 (SpecGame): on the 3x3 board with K in 1..3, for every cell and each of
\* the 8 directions, every board index the walk of check_win_at_cell reads is
\* in [0, size*size), and a walk that runs to the end (counts as a win) went
\* along K cells of one grid line, each on the grid and each holding what
\* the start cell holds; so a run that is contiguous only in flat index order
\* across a row boundary is never counted.
C11_WalkStaysOnGrid ==
    \A cell \in Cells(manager.size) :
      \A d \in 1 .. Len(directions) :
        /\ WalkReads(manager, cell, directions[d], 1, cell) \subseteq Cells(manager.size)
        /\ Walk(manager, cell, directions[d], 1, cell) =>
              \A xy \in LineCoords(manager, cell, directions[d]) :
                  /\ OnGrid(manager, xy)
                  /\ manager.board[xy[2] * manager.size + xy[1]] = manager.board[cell]

\* C11 witness: the player who just moved owns K >= 2 cells c, c+1, ..,
\* c+K-1 that are consecutive in flat index order and lie in two rows, and
\* check_win_at_cell does not count them from c.
C11_Witness ==
    /\ last = "make_move"
    /\ manager.pieces_to_win >= 2
    /\ \E c \in Cells(manager.size) :
          /\ c + manager.pieces_to_win - 1 \in Cells(manager.size)
          /\ c \div manager.size # (c + manager.pieces_to_win - 1) \div manager.size
          /\ \A i \in 0 .. (manager.pieces_to_win - 1) :
                manager.board[c + i] = -manager.turn
          /\ ~Walk(manager, c, <<1, 0>>, 1, c)
          /\ check_win(manager) = 0

\* what search(depth - 1) is worth after make_move(move) in state m (by C6 the
\* full-window search returns the unpruned negamax)
RootValue(m, move, depth) == Negamax(make_move(m, move), depth - 1)

\* the lowest-index legal move of m whose RootValue is maximal
FirstBest(m, depth) ==
    LET legal == find_legal_moves(m)
        best(k) == \A j \in 1 .. Len(legal) :
                      RootValue(m, legal[j], depth) <= RootValue(m, legal[k], depth)
    IN  legal[CHOOSE k \in 1 .. Len(legal) :
                  best(k) /\ \A j \in 1 .. (k - 1) : ~best(j)]

\* C12 (SpecSearch): when search_root(depth), depth >= 1, returns in a state
\* that had a legal move at call time, it returns the smallest-index legal
\* move among those whose search(depth-1) value after make_move is maximal;
\* and inside the loop the current best is replaced only by a strictly
\* greater evaluation.
C12_LowestIndexAmongBest ==
    /\ (Returned("search_root") /\ call.depth >= 1
          /\ find_legal_moves(call.pre) # << >>) =>
              ret = FirstBest(call.pre, call.depth)
    /\ Running("search_root", "loop") =>
          \A k \in 1 .. (Top.i - 1) :
              /\ RootValue(manager, Top.moves[k], Top.depth) <= Top.best_eval
              /\ (RootValue(manager, Top.moves[k], Top.depth) = Top.best_eval
                    => Top.best_move <= Top.moves[k])

\* C12 witness: search_root returned a move that is not the first legal one
\* although an equally valued legal move of higher index exists: the maximum
\* was reached late and the tie was kept by the earlier of the two.
C12_Witness ==
    /\ Returned("search_root")
    /\ call.depth >= 1
    /\ LET legal == find_legal_moves(call.pre)
       IN  /\ Len(legal) >= 3
           /\ ret # legal[1]
           /\ \E k \in 1 .. Len(legal) :
                 /\ legal[k] > ret
                 /\ RootValue(call.pre, legal[k], call.depth)
                       = RootValue(call.pre, ret, call.depth)

\* the relation between turn and the marks on the board
TurnMatchesMarks ==
    /\ manager.turn \in {1, -1}
    /\ manager.turn = 1
          <=> Cardinality(Marks(manager, 1)) = Cardinality(Marks(manager, -1))
    /\ manager.turn = -1
          <=> Cardinality(Marks(manager, 1)) = Cardinality(Marks(manager, -1)) + 1

\* C13 (SpecPlay): turn starts at +1; every make_move and every unmake_move
\* of legal play negates turn; and in every state reached turn is +1 or -1,
\* +1 exactly when there are as many +1 marks as -1 marks and -1 exactly
\* when there is one more +1 mark.
C13_TurnAlternation ==
    /\ manager.turn = 1
    /\ []TurnMatchesMarks
    /\ [][manager'.turn = -manager.turn]_vars

\* C13 witness: a move was taken back and it is the first player's turn
\* again with marks of both players on the board.
C13_Witness ==
    /\ last = "unmake_move"
    /\ manager.turn = 1
    /\ Marks(manager, 1) # {} /\ Marks(manager, -1) # {}

\* game-theoretic outcome of state m for the side to move, both sides playing
\* optimally: -1 when the side that just moved owns a line, 0 on a full
\* board, otherwise the best of the negated outcomes of the legal moves
RECURSIVE Outcome(_)
Outcome(m) ==
    IF RefLine(m, -m.turn) THEN -1
    ELSE IF Marks(m, 0) = {} THEN 0
    ELSE LET vals == {-Outcome(make_move(m, c)) : c \in Marks(m, 0)}
         IN  CHOOSE v \in vals : \A w \in vals : w <= v

\* C14 (SpecSelfPlay): as stated, on the 3x3 board with pieces_to_win = 3,
\* when search_root(depth) returns for a position of legal play in which
\* nobody has won, e >= 1 cells are empty and depth >= e + 1, the move
\* returned has the best outcome any legal move has for the mover.
C14_RootChoiceIsOptimal ==
    (/\ Returned("search_root")
     /\ call.pre.size = 3 /\ call.pre.pieces_to_win = 3
     /\ Consistent(call.pre)
     /\ ~RefLine(call.pre, 1) /\ ~RefLine(call.pre, -1)
     /\ Marks(call.pre, 0) # {}
     /\ call.depth >= Cardinality(Marks(call.pre, 0)) + 1) =>
        LET worth == [c \in Marks(call.pre, 0) |-> -Outcome(make_move(call.pre, c))]
        IN  /\ ret \in DOMAIN worth
            /\ \A c \in DOMAIN worth : worth[c] <= worth[ret]

\* the legal moves of m that complete pieces_to_win in a row for the mover
WinningMoves(m) == {c \in Marks(m, 0) : RefLine(make_move(m, c), m.turn)}

\* the smallest element of a non-empty set of cells
Lowest(S) == CHOOSE c \in S : \A d \in S : c <= d

\* C15 (SpecStaleRoot): as stated, when search_root(depth), depth >= 2,
\* returns for a position in which nobody has won and the side to move has
\* a move that completes pieces_to_win in a row, it returns the lowest-index
\* such move.
C15_ImmediateWinTaken ==
    (/\ Returned("search_root")
     /\ call.depth >= 2
     /\ ~RefLine(call.pre, 1) /\ ~RefLine(call.pre, -1)
     /\ WinningMoves(call.pre) # {}) =>
        ret = Lowest(WinningMoves(call.pre))

\* Over legal play without reset_board the immediate win is taken.
ImmediateWinTakenInPlay ==
    (/\ Returned("search_root")
     /\ call.depth >= 2
     /\ Consistent(call.pre)
     /\ ~RefLine(call.pre, 1) /\ ~RefLine(call.pre, -1)
     /\ WinningMoves(call.pre) # {}) =>
        ret = Lowest(WinningMoves(call.pre))

\* step has returned for an action that was legal when it was called
LegalStepDone ==
    /\ EnvIdle
    /\ last = "step"
    /\ env.out.info # << >>

\* C16 (SpecEnv): as stated, when step returns for a legal action,
\* terminated is True only if check_win() is nonzero for the mark placed
\* last (the agent's, or the adversary's reply), and step returns right after
\* the agent's mark, without a reply of the adversary, only if that mark
\* made check_win() nonzero.
C16_StepTermination ==
    LegalStepDone =>
        /\ env.out.terminated => check_win(manager) # 0
        /\ made[Len(made)] = env.action => check_win(manager) # 0

\* C17 (SpecEnv): as stated, whenever reset has returned the board holds
\* exactly one mark, which is +1, turn is -1, crosses is the list of that one
\* cell and noughts is empty.
C17_ResetLeavesOneCross ==
    (EnvIdle /\ last = "reset") =>
        \E c \in Cells(manager.size) :
            /\ manager.board = [i \in Cells(manager.size) |-> IF i = c THEN 1 ELSE 0]
            /\ manager.turn = -1
            /\ manager.crosses = <<c>>
            /\ manager.noughts = << >>

\* C18 (SpecEnv): a call of step with an action that is not among
\* find_legal_moves() returns at once with reward -10, terminated False and
\* truncated False, leaves board, turn, crosses and noughts as they were and
\* starts no adversary search.
C18_IllegalActionRejected ==
    [][ (EnvIdle /\ last' = "step"
            /\ ~In(env'.action, find_legal_moves(manager))) =>
          /\ env'.out.reward = -10
          /\ env'.out.terminated = FALSE
          /\ env'.out.truncated = FALSE
          /\ manager' = manager
          /\ env'.pc = "idle" /\ stack' = << >> ]_vars

\* C18 witness: step was called in the middle of a game with an occupied
\* cell as action and returned the penalty.
C18_Witness ==
    /\ EnvIdle
    /\ last = "step"
    /\ env.out.reward = -10
    /\ env.action \in Cells(manager.size)
    /\ manager.board[env.action] # 0
    /\ Marks(manager, 1) # {} /\ Marks(manager, -1) # {}

\* step was called with an index off the board and returned the penalty.
OutOfRangeRejected ==
    /\ EnvIdle
    /\ last = "step"
    /\ env.out.reward = -10
    /\ env.action \notin Cells(manager.size)
    /\ Marks(manager, 1) # {}

====
